---- MODULE Spec2Model ----
(***************************************************************************)
(* Model of the public submission form of immer-miau (src/public_form.py): *)
(* PIN validation, the submit handler in create and update mode, the       *)
(* edit_pin / edit_code column fallback and the classification of store    *)
(* errors.  The players table is modelled as a set of rows (functions from *)
(* column names to values) with a unique player_name.  Strings are tuples  *)
(* of one-character strings.                                               *)
(*                                                                         *)
(* store, outcome and calls are indexed by the name of the secret column   *)
(* of a deployment: store["edit_pin"] is the players table of a deployment *)
(* whose schema has the column edit_pin, store["edit_code"] the table of a *)
(* deployment that still has the legacy column.  The same submissions are  *)
(* run against both.                                                       *)
(***************************************************************************)
EXTENDS Integers, Sequences, FiniteSets, TLC

VARIABLES store, clock, ops, last, outcome, calls, sess, candidate, verdict, adm

vars == <<store, clock, ops, last, outcome, calls, sess, candidate, verdict, adm>>

(* ------------------------------ bounds --------------------------------- *)
MaxOps == 1
MaxClock == 1
MaxPinLen == 7

(* ------------------------------ strings -------------------------------- *)
AsciiDigits == {"0", "1", "2", "3", "4", "5", "6", "7", "8", "9"}

\* Characters for which Python's str.isdigit() is true: the ASCII digits and
\* the other Unicode digits, here U+0663 ARABIC-INDIC DIGIT THREE.
UnicodeDigits == AsciiDigits \cup {"u0663"}

Whitespace == {" "}

RECURSIVE lstrip(_)
lstrip(s) == IF s # <<>> /\ Head(s) \in Whitespace THEN lstrip(Tail(s)) ELSE s

RECURSIVE rstrip(_)
rstrip(s) ==
    IF s # <<>> /\ s[Len(s)] \in Whitespace THEN rstrip(SubSeq(s, 1, Len(s) - 1)) ELSE s

strip(s) == rstrip(lstrip(s))

isdigit(s) == s # <<>> /\ \A i \in 1..Len(s) : s[i] \in UnicodeDigits

valid_pin(pin) == pin # <<>> /\ isdigit(pin) /\ 4 <= Len(pin) /\ Len(pin) <= 6

(* --------------------------- the players table ------------------------- *)
\* The two schema versions, named after their secret column.
Schemas == {"edit_pin", "edit_code"}

BaseColumns ==
    {"player_name", "current_alliance", "total_hero_power", "combat_power_1st_squad",
     "expected_transfer_seat_color", "created_at", "updated_at"}

Columns(schema) == BaseColumns \cup {schema}

Null == "NULL"

\* NULL in a column of numbers or timestamps, and in a column of text held
\* as a tuple of characters.
NullNumber == -1
NullText == <<"NULL">>

NullOf(c) ==
    IF c \in {"total_hero_power", "combat_power_1st_squad", "created_at", "updated_at"}
    THEN NullNumber
    ELSE IF c = "expected_transfer_seat_color" THEN Null
    ELSE NullText

SEAT_OPTIONS == {"White", "Blue", "Pink"}

\* What the store can do to a request besides serving it.
Faults == {"none", "network", "permission"}

\* A store error is the set of phrases its message contains; the handlers
\* only ever test messages for substrings.  A message carries the phrases of
\* its own reason, the ones the handlers look for, and quotes no submitted
\* text.
UndefinedColumn(col) == {col, "does not exist", "42703"}
UniqueViolation == {"duplicate key value", "23505"}
PermissionDenied == {"permission denied", "42501"}
NetworkError == {"connection refused"}

Failed(rows, msg) == [rows |-> rows, ok |-> FALSE, msg |-> msg, affected |-> 0]

\* sb.table("players").insert(payload).execute()
StoreInsert(rows, schema, payload, fault) ==
    IF fault = "network" THEN Failed(rows, NetworkError)
    ELSE IF ~(DOMAIN payload \subseteq Columns(schema))
    THEN Failed(rows, UndefinedColumn(CHOOSE c \in DOMAIN payload : c \notin Columns(schema)))
    ELSE IF fault = "permission" THEN Failed(rows, PermissionDenied)
    ELSE IF \E r \in rows : r["player_name"] = payload["player_name"]
    THEN Failed(rows, UniqueViolation)
    ELSE [rows |-> rows \cup {[c \in Columns(schema) |->
                                 IF c \in DOMAIN payload THEN payload[c] ELSE NullOf(c)]},
          ok |-> TRUE, msg |-> {}, affected |-> 1]

\* sb.table("players").update(payload).eq(c1, v1).eq(c2, v2).execute();
\* filters is the set of <<column, value>> pairs of the .eq() calls.
StoreUpdate(rows, schema, payload, filters, fault) ==
    LET used == DOMAIN payload \cup {f[1] : f \in filters}
        matched == {r \in rows : \A f \in filters : r[f[1]] = f[2]}
    IN  IF fault = "network" THEN Failed(rows, NetworkError)
        ELSE IF ~(used \subseteq Columns(schema))
        THEN Failed(rows, UndefinedColumn(CHOOSE c \in used : c \notin Columns(schema)))
        ELSE IF fault = "permission" THEN Failed(rows, PermissionDenied)
        ELSE [rows |-> (rows \ matched) \cup
                        {[c \in Columns(schema) |->
                             IF c \in DOMAIN payload THEN payload[c] ELSE r[c]] : r \in matched},
              ok |-> TRUE, msg |-> {}, affected |-> Cardinality(matched)]

\* One entry of the log of store calls a handler run made.
Call(verb, column, res) ==
    [verb |-> verb, column |-> column, ok |-> res.ok, msg |-> res.msg,
     affected |-> res.affected]

(* --------------------------- public_form.py ---------------------------- *)
\* Faulty variant of ColumnMissing: every failure of the first attempt is retried.
ColumnMissing_AnyError(msg) == TRUE

\* ("edit_pin" in msg and "does not exist" in msg) or ("column edit_pin" in msg)
ColumnMissing(msg) ==
    ("edit_pin" \in msg /\ "does not exist" \in msg) \/ ("column edit_pin" \in msg)

EqName(player_name) == <<"player_name", player_name>>

\* Faulty variant of try_update_with_pin: the update is filtered on player_name alone.
try_update_with_pin_NameOnly(rows, schema, table_payload, player_name, pin_value, fault) ==
    LET r1 == StoreUpdate(rows, schema, table_payload, {EqName(player_name)}, fault)
    IN  [rows |-> r1.rows, ok |-> r1.ok, msg |-> r1.msg,
         calls |-> <<Call("update", "edit_pin", r1)>>]

\* Faulty variant of try_update_with_pin: an update that matched no row of a
\* registered name is turned into a refusal.
try_update_with_pin_Probing(rows, schema, table_payload, player_name, pin_value, fault) ==
    LET r1 == StoreUpdate(rows, schema, table_payload,
                          {EqName(player_name), <<schema, pin_value>>}, fault)
    IN  IF r1.ok /\ r1.affected = 0 /\ (\E r \in rows : r["player_name"] = player_name)
        THEN [rows |-> rows, ok |-> FALSE, msg |-> PermissionDenied,
              calls |-> <<Call("update", schema, r1)>>]
        ELSE [rows |-> r1.rows, ok |-> r1.ok, msg |-> r1.msg,
              calls |-> <<Call("update", schema, r1)>>]

try_update_with_pin(rows, schema, table_payload, player_name, pin_value, fault) ==
    LET r1 == StoreUpdate(rows, schema, table_payload,
                          {EqName(player_name), <<"edit_pin", pin_value>>}, fault)
        r2 == StoreUpdate(rows, schema, table_payload,
                          {EqName(player_name), <<"edit_code", pin_value>>}, fault)
    IN  IF r1.ok
        THEN [rows |-> r1.rows, ok |-> TRUE, msg |-> {},
              calls |-> <<Call("update", "edit_pin", r1)>>]
        ELSE IF ColumnMissing(r1.msg)
        THEN [rows |-> r2.rows, ok |-> r2.ok, msg |-> r2.msg,
              calls |-> <<Call("update", "edit_pin", r1), Call("update", "edit_code", r2)>>]
        ELSE [rows |-> r1.rows, ok |-> FALSE, msg |-> r1.msg,
              calls |-> <<Call("update", "edit_pin", r1)>>]

WithSecret(table_payload, column, pin_value) == (column :> pin_value) @@ table_payload

\* Faulty variant of InsertAttempt: the row is written with upsert instead of insert.
InsertAttempt_Upsert(rows, schema, table_payload, column, pin_value, fault) ==
    StoreInsert({r \in rows : r["player_name"] # table_payload["player_name"]}, schema,
                WithSecret(table_payload, column, pin_value), fault)

\* payload = dict(table_payload); payload[column] = pin_value;
\* sb.table("players").insert(payload).execute()
InsertAttempt(rows, schema, table_payload, column, pin_value, fault) ==
    StoreInsert(rows, schema, WithSecret(table_payload, column, pin_value), fault)

\* Faulty variant of try_insert_with_pin: the insert is not retried on edit_code.
try_insert_with_pin_NoFallback(rows, schema, table_payload, pin_value, fault) ==
    LET r1 == InsertAttempt(rows, schema, table_payload, "edit_pin", pin_value, fault)
    IN  [rows |-> r1.rows, ok |-> r1.ok, msg |-> r1.msg,
         calls |-> <<Call("insert", "edit_pin", r1)>>]

try_insert_with_pin(rows, schema, table_payload, pin_value, fault) ==
    LET r1 == InsertAttempt(rows, schema, table_payload, "edit_pin", pin_value, fault)
        r2 == InsertAttempt(rows, schema, table_payload, "edit_code", pin_value, fault)
    IN  IF r1.ok
        THEN [rows |-> r1.rows, ok |-> TRUE, msg |-> {},
              calls |-> <<Call("insert", "edit_pin", r1)>>]
        ELSE IF ColumnMissing(r1.msg)
        THEN [rows |-> r2.rows, ok |-> r2.ok, msg |-> r2.msg,
              calls |-> <<Call("insert", "edit_pin", r1), Call("insert", "edit_code", r2)>>]
        ELSE [rows |-> r1.rows, ok |-> FALSE, msg |-> r1.msg,
              calls |-> <<Call("insert", "edit_pin", r1)>>]

\* st.number_input(..., min_value=0, step=1): a field the submitter left alone
\* (<<>>) yields the minimum, an entered number <<n>> yields n.
number_input(widget) == IF widget = <<>> THEN 0 ELSE widget[1]

Common(form, now) ==
    [player_name |-> strip(form.player_name),
     current_alliance |-> strip(form.alliance),
     total_hero_power |-> number_input(form.total_power),
     combat_power_1st_squad |-> number_input(form.combat_power),
     updated_at |-> now]

WithSeat(payload, form) ==
    IF form.seat_color # ""
    THEN ("expected_transfer_seat_color" :> form.seat_color) @@ payload
    ELSE payload

UpdatePayload(form, now) == WithSeat(Common(form, now), form)

\* created_at and updated_at are two calls of now_iso(): t1 and t2.
InsertPayload(form, t1, t2) == WithSeat(("created_at" :> t1) @@ Common(form, t2), form)

\* Faulty variant of Classify: the duplicate is looked for under the wrong phrase.
Classify_WrongPhrase(msg) ==
    IF "already exists" \in msg THEN "duplicate_name"
    ELSE IF "violates row-level security" \in msg \/ "permission denied" \in msg
            \/ "42501" \in msg
    THEN "update_blocked"
    ELSE "error"

\* The except branch of the submit handler.
Classify(msg) ==
    IF "duplicate key value" \in msg \/ "23505" \in msg THEN "duplicate_name"
    ELSE IF "violates row-level security" \in msg \/ "permission denied" \in msg
            \/ "42501" \in msg
    THEN "update_blocked"
    ELSE "error"

\* What the page shows after the handler ran: st.success, one of the
\* st.warning texts, or st.error with the text of the exception.
Shown(kind, detail) == [kind |-> kind, detail |-> detail]

Report(res) ==
    [rows |-> res.rows,
     outcome |-> IF res.ok THEN Shown("success", {})
                 ELSE IF Classify(res.msg) = "error" THEN Shown("error", res.msg)
                 ELSE Shown(Classify(res.msg), {}),
     calls |-> res.calls]

Rejected(rows, warning) == [rows |-> rows, outcome |-> Shown(warning, {}), calls |-> <<>>]

\* "if submitted:" for one deployment; t1, t2 are the clock readings of the
\* handler's now_iso() calls (update mode reads the clock once: t1).
HandleSubmit(rows, schema, form, t1, t2, fault) ==
    IF form.player_name = <<>> \/ form.alliance = <<>>
    THEN Rejected(rows, "warning_required")
    ELSE IF form.update_mode
    THEN IF ~valid_pin(form.pin)
         THEN Rejected(rows, "warning_pin_update")
         ELSE Report(try_update_with_pin(rows, schema, UpdatePayload(form, t1),
                                         strip(form.player_name), strip(form.pin), fault))
    ELSE IF ~valid_pin(form.pin)
         THEN Rejected(rows, "warning_pin_create")
         ELSE Report(try_insert_with_pin(rows, schema, InsertPayload(form, t1, t2),
                                         strip(form.pin), fault))

\* The submission gets past the handler's checks and calls the store.
ReachesStore(form) ==
    form.player_name # <<>> /\ form.alliance # <<>> /\ valid_pin(form.pin)

(* ------------------------------ inputs --------------------------------- *)
NameInputs == {<<>>, <<" ">>, <<"a">>, <<"b", " ">>}
AllianceInputs == {<<>>, <<"N", " ">>}
PowerInputs == {<<>>, <<5>>}
CombatInputs == {<<7>>}
SeatInputs == {"", "Blue"}
PinInputs == {<<"1", "2", "3">>, <<"1", "2", "3", "4">>, <<"4", "3", "2", "1">>}

Forms ==
    [player_name : NameInputs, alliance : AllianceInputs, total_power : PowerInputs,
     combat_power : CombatInputs, seat_color : SeatInputs, update_mode : BOOLEAN,
     pin : PinInputs]

\* Earlier submissions that filled the table before the runs examined here.
SeedForm(name, total, combat, seat, pin) ==
    [player_name |-> name, alliance |-> <<"N", " ">>, total_power |-> total,
     combat_power |-> combat, seat_color |-> seat, update_mode |-> FALSE, pin |-> pin]

SeedRuns ==
    LET fa == SeedForm(<<"a">>, <<5>>, <<7>>, "Blue", <<"1", "2", "3", "4">>)
        fb == SeedForm(<<"b", " ">>, <<>>, <<>>, "", <<"4", "3", "2", "1">>)
    IN  {<<>>, <<fa>>, <<fa, fb>>}

RECURSIVE Replay(_, _, _)
Replay(rows, schema, forms) ==
    IF forms = <<>> THEN rows
    ELSE Replay(HandleSubmit(rows, schema, Head(forms), 0, 0, "none").rows, schema,
                Tail(forms))

NoForm ==
    [player_name |-> <<>>, alliance |-> <<>>, total_power |-> <<>>, combat_power |-> <<>>,
     seat_color |-> "", update_mode |-> FALSE, pin |-> <<>>]

(* --------------------------- the state machine ------------------------- *)
\* Two submitters with a page each, for the runs in which the handler's store
\* calls interleave.
Submitters == {1, 2}

Idle == [pc |-> "idle", form |-> NoForm, calls |-> <<>>, outcome |-> Shown("none", {})]

\* The two admin dashboards, each a Streamlit script of its own with its own
\* st.cache_data: _dashboard.py (add / edit / delete) and dashboard.py (roster
\* with the PIN reset).
Apps == {"_dashboard", "dashboard"}

\* An entry of st.cache_data: the cached return value of load_df /
\* fetch_players.  predates is set when the session wrote to the table
\* after the snapshot was taken.
NoSnapshot == [valid |-> FALSE, rows |-> {}, predates |-> FALSE]

NoRead == [src |-> "none", rows |-> {}, predates |-> FALSE]

\* The form a dashboard handled last: which button, the player it named, the
\* row or the PINs entered, the store's fault, the time, and the number of
\* the operation.
NoAdminOp ==
    [kind |-> "none", name |-> <<>>, payload |-> <<>>, pin1 |-> <<>>, pin2 |-> <<>>,
     fault |-> "none", at |-> 0, seq |-> 0]

NoAdminResult == [shown |-> "none", calls |-> <<>>]

\* State of the dashboards: their caches, the data frame of the last script
\* run, and the last form handled with what it showed and the store calls
\* it made.
NoAdmin ==
    [cache |-> [app \in Apps |-> [s \in Schemas |-> NoSnapshot]],
     read |-> [app \in Apps |-> [s \in Schemas |-> NoRead]],
     op |-> NoAdminOp,
     result |-> [s \in Schemas |-> NoAdminResult]]

Init ==
    /\ \E run \in SeedRuns : store = [s \in Schemas |-> Replay({}, s, run)]
    /\ clock = 0
    /\ ops = 0
    /\ last = [form |-> NoForm, fault |-> "none"]
    /\ outcome = [s \in Schemas |-> Shown("none", {})]
    /\ calls = [s \in Schemas |-> <<>>]
    /\ sess = [schema |-> "edit_pin", present0 |-> {}, sub |-> [i \in Submitters |-> Idle]]
    /\ candidate = <<>>
    /\ verdict = "unchecked"
    /\ adm = NoAdmin

\* Time passes between two runs of the handler.
Tick ==
    /\ clock < MaxClock
    /\ clock' = clock + 1
    /\ UNCHANGED <<store, ops, last, outcome, calls, sess, candidate, verdict, adm>>

\* One press of the submit button; d is the time that passes between the
\* handler's two readings of the clock in create mode.
Submit ==
    /\ ops < MaxOps
    /\ \E form \in Forms :
       \E fault \in IF ReachesStore(form) THEN Faults ELSE {"none"} :
       \E d \in IF ReachesStore(form) /\ ~form.update_mode THEN {0, 1} ELSE {0} :
          /\ clock + d <= MaxClock
          /\ \E res \in {[s \in Schemas |->
                             HandleSubmit(store[s], s, form, clock, clock + d, fault)]} :
                 /\ store' = [s \in Schemas |-> res[s].rows]
                 /\ outcome' = [s \in Schemas |-> res[s].outcome]
                 /\ calls' = [s \in Schemas |-> res[s].calls]
          /\ clock' = clock + d
          /\ last' = [form |-> form, fault |-> fault]
    /\ ops' = ops + 1
    /\ UNCHANGED <<sess, candidate, verdict, adm>>

Next == Tick \/ Submit

Spec == Init /\ [][Next]_vars

(* ------------------ two submitters, interleaved store calls ------------ *)
\* Create-mode submissions of the racing submitters.
RaceForms ==
    {f \in Forms : ~f.update_mode /\ f.seat_color = "" /\ f.total_power = <<>>}

InitRace ==
    /\ \E run \in SeedRuns, schema \in Schemas :
           /\ store = [s \in Schemas |-> Replay({}, s, run)]
           /\ sess = [schema |-> schema,
                      present0 |-> {r["player_name"] : r \in Replay({}, schema, run)},
                      sub |-> [i \in Submitters |-> Idle]]
    /\ clock = 0
    /\ ops = 0
    /\ last = [form |-> NoForm, fault |-> "none"]
    /\ outcome = [s \in Schemas |-> Shown("none", {})]
    /\ calls = [s \in Schemas |-> <<>>]
    /\ candidate = <<>>
    /\ verdict = "unchecked"
    /\ adm = NoAdmin

Finished(form, res, log) ==
    [pc |-> "done", form |-> form, calls |-> log,
     outcome |-> Report([rows |-> res.rows, ok |-> res.ok, msg |-> res.msg,
                         calls |-> log]).outcome]

\* Submitter i presses submit: the handler runs up to the end of its first
\* store call, the insert with edit_pin.
RaceFirst(i) ==
    /\ sess.sub[i].pc = "idle"
    /\ \E form \in RaceForms :
          IF ~ReachesStore(form)
          THEN /\ sess' = [sess EXCEPT !.sub[i] =
                               [pc |-> "done", form |-> form, calls |-> <<>>,
                                outcome |-> HandleSubmit(store[sess.schema], sess.schema, form,
                                                         clock, clock, "none").outcome]]
               /\ UNCHANGED store
          ELSE \E r1 \in {InsertAttempt(store[sess.schema], sess.schema,
                                         InsertPayload(form, clock, clock), "edit_pin",
                                         strip(form.pin), "none")} :
                  /\ store' = [store EXCEPT ![sess.schema] = r1.rows]
                  /\ sess' = [sess EXCEPT !.sub[i] =
                                  IF ~r1.ok /\ ColumnMissing(r1.msg)
                                  THEN [pc |-> "retry", form |-> form,
                                        calls |-> <<Call("insert", "edit_pin", r1)>>,
                                        outcome |-> Shown("none", {})]
                                  ELSE Finished(form, r1, <<Call("insert", "edit_pin", r1)>>)]
    /\ UNCHANGED <<clock, ops, last, outcome, calls, candidate, verdict, adm>>

\* Submitter i's handler makes its second store call, the insert with
\* edit_code, and shows the result.
RaceRetry(i) ==
    /\ sess.sub[i].pc = "retry"
    /\ \E r2 \in {InsertAttempt(store[sess.schema], sess.schema,
                                 InsertPayload(sess.sub[i].form, clock, clock), "edit_code",
                                 strip(sess.sub[i].form.pin), "none")} :
          /\ store' = [store EXCEPT ![sess.schema] = r2.rows]
          /\ sess' = [sess EXCEPT !.sub[i] =
                          Finished(sess.sub[i].form, r2,
                                   Append(sess.sub[i].calls, Call("insert", "edit_code", r2)))]
    /\ UNCHANGED <<clock, ops, last, outcome, calls, candidate, verdict, adm>>

NextRace == Tick \/ \E i \in Submitters : RaceFirst(i) \/ RaceRetry(i)

SpecRace == InitRace /\ [][NextRace]_vars

(* --------------------------- valid_pin alone --------------------------- *)
PinChars == {"1", "9", "a", "u0663"}

Candidates == UNION {[1..n -> PinChars] : n \in 0..MaxPinLen}

InitPin ==
    /\ candidate \in Candidates
    /\ verdict = "unchecked"
    /\ store = [s \in Schemas |-> {}]
    /\ sess = [schema |-> "edit_pin", present0 |-> {}, sub |-> [i \in Submitters |-> Idle]]
    /\ clock = 0
    /\ ops = 0
    /\ last = [form |-> NoForm, fault |-> "none"]
    /\ outcome = [s \in Schemas |-> Shown("none", {})]
    /\ calls = [s \in Schemas |-> <<>>]
    /\ adm = NoAdmin

ValidatePin ==
    /\ verdict = "unchecked"
    /\ verdict' = IF valid_pin(candidate) THEN "accepted" ELSE "rejected"
    /\ UNCHANGED <<store, clock, ops, last, outcome, calls, sess, candidate, adm>>

NextPin == ValidatePin

SpecPin == InitPin /\ [][NextPin]_vars

(* ------------------------ the store, admin calls ----------------------- *)
\* sb.table("players").upsert(row, on_conflict=column).execute(): one
\* INSERT ... ON CONFLICT (column) DO UPDATE SET the columns of the row.
StoreUpsert(rows, schema, payload, on_conflict, fault) ==
    LET hit == {r \in rows : r[on_conflict] = payload[on_conflict]}
    IN  IF fault = "network" THEN Failed(rows, NetworkError)
        ELSE IF ~(DOMAIN payload \subseteq Columns(schema))
        THEN Failed(rows, UndefinedColumn(CHOOSE c \in DOMAIN payload : c \notin Columns(schema)))
        ELSE IF fault = "permission" THEN Failed(rows, PermissionDenied)
        ELSE [rows |-> (rows \ hit) \cup
                        (IF hit = {}
                         THEN {[c \in Columns(schema) |->
                                   IF c \in DOMAIN payload THEN payload[c] ELSE NullOf(c)]}
                         ELSE {[c \in Columns(schema) |->
                                   IF c \in DOMAIN payload THEN payload[c] ELSE r[c]] : r \in hit}),
              ok |-> TRUE, msg |-> {}, affected |-> 1]

\* sb.table("players").delete().eq(c1, v1).execute()
StoreDelete(rows, schema, filters, fault) ==
    LET used == {f[1] : f \in filters}
        matched == {r \in rows : \A f \in filters : r[f[1]] = f[2]}
    IN  IF fault = "network" THEN Failed(rows, NetworkError)
        ELSE IF ~(used \subseteq Columns(schema))
        THEN Failed(rows, UndefinedColumn(CHOOSE c \in used : c \notin Columns(schema)))
        ELSE IF fault = "permission" THEN Failed(rows, PermissionDenied)
        ELSE [rows |-> rows \ matched, ok |-> TRUE, msg |-> {},
              affected |-> Cardinality(matched)]

(* ----------------------------- _dashboard.py --------------------------- *)
\* @st.cache_data(ttl=30): a call is served from the entry while there is
\* one, and otherwise runs the function and keeps what it returned.  Reads
\* of the table are taken to succeed.
cache_data(entry, fetched) ==
    IF entry.valid
    THEN [cache |-> entry,
          read |-> [src |-> "cache", rows |-> entry.rows, predates |-> entry.predates]]
    ELSE [cache |-> [valid |-> TRUE, rows |-> fetched, predates |-> FALSE],
          read |-> [src |-> "store", rows |-> fetched, predates |-> FALSE]]

\* select("*").order("player_name")
load_df(entry, rows) == cache_data(entry, rows)

\* Faulty variant of upsert: the row is replaced, by a delete and an insert.
upsert_DeleteInsert(rows, schema, row, now, fault) ==
    LET stamped == ("updated_at" :> now) @@ row
        gone == StoreDelete(rows, schema, {<<"player_name", row["player_name"]>>}, fault)
    IN  IF gone.ok THEN StoreInsert(gone.rows, schema, stamped, fault) ELSE gone

upsert(rows, schema, row, now, fault) ==
    StoreUpsert(rows, schema, ("updated_at" :> now) @@ row, "player_name", fault)

delete(rows, schema, name, fault) ==
    StoreDelete(rows, schema, {<<"player_name", name>>}, fault)

\* float(v) if v else None, of a number_input with min_value=0.0
FloatOrNone(v) == IF v = 0 THEN NullNumber ELSE v

\* The row the edit form hands to upsert.
EditRow(form) ==
    [player_name |-> strip(form.player_name),
     current_alliance |-> IF strip(form.current_alliance) = <<>> THEN NullText
                          ELSE strip(form.current_alliance),
     total_hero_power |-> FloatOrNone(form.total_hero_power),
     combat_power_1st_squad |-> FloatOrNone(form.combat_power),
     expected_transfer_seat_color |-> form.seat_color]

\* One run of the script with the form's button pressed: df = load_df(),
\* then the handler; after a write that raised nothing the cache is cleared
\* and the script is run again from the top, which loads the table anew.
\* An exception of the store ends the run where it is raised.
HandleEditForm(entry, rows, schema, form, now, fault) ==
    LET first == load_df(entry, rows)
        name == strip(form.player_name)
        w == IF form.mode = "delete" THEN delete(rows, schema, name, fault)
             ELSE upsert(rows, schema, EditRow(form), now, fault)
        verb == IF form.mode = "delete" THEN "delete" ELSE "upsert"
        again == load_df(NoSnapshot, w.rows)
    IN  IF name = <<>>
        THEN [rows |-> rows, cache |-> first.cache, read |-> first.read,
              shown |-> "required_name", calls |-> <<>>]
        ELSE IF ~w.ok
        THEN [rows |-> w.rows, cache |-> first.cache, read |-> first.read,
              shown |-> "exception", calls |-> <<Call(verb, "player_name", w)>>]
        ELSE [rows |-> w.rows, cache |-> again.cache, read |-> again.read,
              shown |-> IF form.mode = "delete" THEN "deleted" ELSE "saved",
              calls |-> <<Call(verb, "player_name", w)>>]

AdminNameInputs == {<<" ">>, <<"a">>, <<"c", " ">>}
AdminAllianceInputs == {<<>>, <<"M">>}
AdminPowerInputs == {0, 9}
AdminCombatInputs == {3}
AdminSeatInputs == {"White", "Pink"}
Modes == {"add_update", "delete"}

EditForms ==
    [player_name : AdminNameInputs, current_alliance : AdminAllianceInputs,
     total_hero_power : AdminPowerInputs, combat_power : AdminCombatInputs,
     seat_color : AdminSeatInputs, mode : Modes]

\* What the state keeps of a handled edit form.
EditOp(form, fault, now, seq) ==
    [kind |-> IF form.mode = "delete" THEN "delete" ELSE "upsert",
     name |-> strip(form.player_name),
     payload |-> IF form.mode = "delete" THEN <<>> ELSE EditRow(form),
     pin1 |-> <<>>, pin2 |-> <<>>, fault |-> fault, at |-> now, seq |-> seq]

\* The admin presses Apply on the edit form.
EditForm ==
    /\ ops < MaxOps
    /\ \E form \in EditForms :
       \E fault \in IF strip(form.player_name) = <<>> THEN {"none"} ELSE Faults :
       \E res \in {[s \in Schemas |->
                       HandleEditForm(adm.cache["_dashboard"][s], store[s], s, form,
                                      clock, fault)]} :
          /\ store' = [s \in Schemas |-> res[s].rows]
          /\ adm' = [adm EXCEPT !.cache["_dashboard"] = [s \in Schemas |-> res[s].cache],
                                !.read["_dashboard"] = [s \in Schemas |-> res[s].read],
                                !.op = EditOp(form, fault, clock, ops + 1),
                                !.result = [s \in Schemas |->
                                               [shown |-> res[s].shown, calls |-> res[s].calls]]]
    /\ ops' = ops + 1
    /\ UNCHANGED <<clock, last, outcome, calls, sess, candidate, verdict>>

(* ------------------------------ dashboard.py --------------------------- *)
FetchColumns ==
    {"player_name", "current_alliance", "total_hero_power", "combat_power_1st_squad",
     "expected_transfer_seat_color", "updated_at"}

\* select(the six columns).order("updated_at", desc=True).limit(1000); the
\* tables here stay far below the limit.
fetch_players(entry, rows) ==
    cache_data(entry, {[c \in FetchColumns |-> r[c]] : r \in rows})

\* if seat_mult: df = df[df["expected_transfer_seat_color"].isin(seat_mult)],
\* with the alliance filter left empty.
Filtered(df, seat_mult) ==
    IF seat_mult = {} THEN df
    ELSE {r \in df : r["expected_transfer_seat_color"] \in seat_mult}

\* The players the Admin Tools offer for selection.
players_for_select(df) == {r["player_name"] : r \in df}

\* sb.table("players").update({"edit_pin": pin1}).eq("player_name", player_name)
ResetWrite(rows, schema, player_name, pin1, fault) ==
    StoreUpdate(rows, schema, [edit_pin |-> pin1], {<<"player_name", player_name>>}, fault)

\* One run of the script with the Reset PIN button pressed: df =
\* fetch_players(), then the handler.  Nothing in it clears the cache.
HandleResetPin(entry, rows, schema, player_name, pin1, pin2, fault) ==
    LET first == fetch_players(entry, rows)
        w == ResetWrite(rows, schema, player_name, pin1, fault)
        kept == [first.cache EXCEPT !.predates = @ \/ (w.ok /\ w.affected > 0)]
    IN  IF pin1 # pin2
        THEN [rows |-> rows, cache |-> first.cache, read |-> first.read,
              shown |-> "error_pin_match", calls |-> <<>>]
        ELSE IF ~isdigit(pin1) \/ ~(4 <= Len(pin1) /\ Len(pin1) <= 6)
        THEN [rows |-> rows, cache |-> first.cache, read |-> first.read,
              shown |-> "error_pin_range", calls |-> <<>>]
        ELSE [rows |-> w.rows, cache |-> kept, read |-> first.read,
              shown |-> IF w.ok THEN "success_reset" ELSE "pin_update_failed",
              calls |-> <<Call("update", "edit_pin", w)>>]

SeatFilters == {SEAT_OPTIONS, {}}
ResetPinInputs ==
    {<<"1", "2", "3">>, <<"9", "9", "9", "9">>, <<"u0663", "u0663", "u0663", "u0663">>}

\* The reset reaches the store.
ResetReachesStore(pin1, pin2) ==
    pin1 = pin2 /\ isdigit(pin1) /\ 4 <= Len(pin1) /\ Len(pin1) <= 6

\* The admin picks one of the listed players, enters the PIN twice and
\* presses Reset PIN.
ResetPin ==
    /\ ops < MaxOps
    /\ \E seat_mult \in SeatFilters :
       \E player_name \in UNION {players_for_select(store[s]) : s \in Schemas}
                          \cup UNION {players_for_select(adm.cache["dashboard"][s].rows) :
                                         s \in Schemas} :
       \E pin1 \in ResetPinInputs, pin2 \in ResetPinInputs :
       \E fault \in IF ResetReachesStore(pin1, pin2) THEN Faults ELSE {"none"} :
       \E res \in {[s \in Schemas |->
                       HandleResetPin(adm.cache["dashboard"][s], store[s], s, player_name,
                                      pin1, pin2, fault)]} :
          /\ \A s \in Schemas :
                player_name \in players_for_select(Filtered(res[s].read.rows, seat_mult))
          /\ store' = [s \in Schemas |-> res[s].rows]
          /\ adm' = [adm EXCEPT !.cache["dashboard"] = [s \in Schemas |-> res[s].cache],
                                !.read["dashboard"] = [s \in Schemas |-> res[s].read],
                                !.op = [kind |-> "reset", name |-> player_name,
                                        payload |-> <<>>, pin1 |-> pin1, pin2 |-> pin2,
                                        fault |-> fault, at |-> clock, seq |-> ops + 1],
                                !.result = [s \in Schemas |->
                                               [shown |-> res[s].shown, calls |-> res[s].calls]]]
    /\ ops' = ops + 1
    /\ UNCHANGED <<clock, last, outcome, calls, sess, candidate, verdict>>

(* --------------------------- the dashboards' runs ---------------------- *)
Load(app, entry, rows) ==
    IF app = "dashboard" THEN fetch_players(entry, rows) ELSE load_df(entry, rows)

\* A run of a dashboard's script with no button pressed.
Rerun(app) ==
    /\ \E res \in {[s \in Schemas |-> Load(app, adm.cache[app][s], store[s])]} :
          adm' = [adm EXCEPT !.cache[app] = [s \in Schemas |-> res[s].cache],
                             !.read[app] = [s \in Schemas |-> res[s].read]]
    /\ UNCHANGED <<store, clock, ops, last, outcome, calls, sess, candidate, verdict>>

\* The ttl of an entry runs out and st.cache_data drops it.
Expire(app) ==
    /\ \E s \in Schemas : adm.cache[app][s].valid
    /\ adm' = [adm EXCEPT !.cache[app] = [s \in Schemas |-> NoSnapshot]]
    /\ UNCHANGED <<store, clock, ops, last, outcome, calls, sess, candidate, verdict>>

\* The edit dashboard alone.
NextEdit == Tick \/ EditForm \/ Rerun("_dashboard") \/ Expire("_dashboard")

SpecEdit == Init /\ [][NextEdit]_vars

\* Both dashboards.
NextAdmin == Tick \/ EditForm \/ ResetPin \/ (\E app \in Apps : Rerun(app) \/ Expire(app))

SpecAdmin == Init /\ [][NextAdmin]_vars

\* The public form and both dashboards.
NextSite == Submit \/ NextAdmin

SpecSite == Init /\ [][NextSite]_vars

\* The operations that write a secret or leave it alone: the public form and
\* the PIN reset.
NextSecrets == Tick \/ Submit \/ ResetPin \/ Rerun("dashboard") \/ Expire("dashboard")

SpecSecrets == Init /\ [][NextSecrets]_vars

(* ------------------------------ claims --------------------------------- *)
Submitted == ops > 0

\* A step of the handler (ops counts the presses of the submit button).
SubmitStep == ops' = ops + 1

Named(rows, player_name) == {r \in rows : r["player_name"] = strip(player_name)}

Warnings == {"warning_required", "warning_pin_update", "warning_pin_create"}

LastCall(s) == calls[s][Len(calls[s])]

\* C1: a submit_update that names a row but presents a PIN different from the
\* row's stored secret leaves that row exactly as it was, in the deployment
\* with edit_pin and in the one with edit_code.
C1_WrongPinLeavesRow ==
    [][(SubmitStep /\ last'.form.update_mode) =>
           \A s \in Schemas : \A r \in Named(store[s], last'.form.player_name) :
               r[s] # last'.form.pin => r \in store'[s]]_vars

\* C1 witness: an update reached the store in both deployments (on edit_code
\* through the fallback) with a PIN other than the secret of the row it names.
C1_Witness ==
    /\ Submitted /\ last.form.update_mode /\ last.fault = "none"
    /\ Len(calls["edit_pin"]) = 1 /\ Len(calls["edit_code"]) = 2
    /\ \A s \in Schemas : \E r \in Named(store[s], last.form.player_name) :
           r[s] # last.form.pin

\* C2: an update that matched zero rows is reported as an ownership failure,
\* never as a success.
C2_ZeroRowsIsOwnershipFailure ==
    \A s \in Schemas :
        (Submitted /\ last.form.update_mode /\ calls[s] # <<>>
           /\ LastCall(s).ok /\ LastCall(s).affected = 0)
        => outcome[s].kind = "update_blocked"

\* C4: the first attempt is made on edit_pin; a second store call is made
\* only after the first failed with "column edit_pin does not exist", and it
\* goes to edit_code; any other failure of the first attempt is the only
\* call of the run and is what the caller is shown.
C4_RetryOnlyOnMissingColumn ==
    \A s \in Schemas :
        (Submitted /\ calls[s] # <<>>) =>
            /\ calls[s][1].column = "edit_pin"
            /\ Len(calls[s]) <= 2
            /\ Len(calls[s]) = 2 =>
                   /\ ~calls[s][1].ok
                   /\ calls[s][1].msg = UndefinedColumn("edit_pin")
                   /\ calls[s][2].column = "edit_code"
            /\ (~calls[s][1].ok /\ calls[s][1].msg # UndefinedColumn("edit_pin")) =>
                   /\ Len(calls[s]) = 1
                   /\ outcome[s].kind \in {"duplicate_name", "update_blocked", "error"}
                   /\ outcome[s].kind = "error" => outcome[s].detail = calls[s][1].msg

\* C4 witness: the first attempt failed on the uniqueness constraint where
\* edit_pin exists and was not retried, while the deployment without edit_pin
\* went on to edit_code.
C4_Witness ==
    /\ Submitted
    /\ Len(calls["edit_pin"]) = 1 /\ calls["edit_pin"][1].msg = UniqueViolation
    /\ Len(calls["edit_code"]) = 2 /\ calls["edit_code"][1].msg = UndefinedColumn("edit_pin")

RenameSecret(r) ==
    [c \in Columns("edit_code") |-> IF c = "edit_code" THEN r["edit_pin"] ELSE r[c]]

\* C5: after the same submissions the deployment with edit_pin and the one
\* with edit_code show the caller the same outcome, never the missing-column
\* error, and hold the same rows up to the name of the secret column.
C5_SchemasAgree ==
    /\ outcome["edit_pin"] = outcome["edit_code"]
    /\ \A s \in Schemas : outcome[s].detail # UndefinedColumn("edit_pin")
    /\ {RenameSecret(r) : r \in store["edit_pin"]} = store["edit_code"]

\* C5 witness: a create succeeded in both deployments, in the legacy one on
\* the second attempt.
C5_Witness ==
    /\ Submitted /\ ~last.form.update_mode
    /\ \A s \in Schemas : outcome[s].kind = "success"
    /\ Len(calls["edit_code"]) = 2 /\ calls["edit_code"][2].affected = 1
    /\ Named(store["edit_code"], last.form.player_name) # {}

\* C6: a successful submit_new leaves exactly one row of that name, whose
\* secret is the supplied PIN and whose updated_at equals its created_at.
C6_CreateStampsOneInstant ==
    \A s \in Schemas :
        (Submitted /\ ~last.form.update_mode /\ outcome[s].kind = "success") =>
            /\ Cardinality(Named(store[s], last.form.player_name)) = 1
            /\ \A r \in Named(store[s], last.form.player_name) :
                   r[s] = last.form.pin /\ r["updated_at"] = r["created_at"]

\* C7: a submit_new that passes the form's checks and names an existing
\* player, with the store serving the request, shows the duplicate-name hint
\* and leaves the table as it was, in both deployments.
C7_DuplicateNameNoWrite ==
    [][(SubmitStep /\ ~last'.form.update_mode /\ ReachesStore(last'.form)
          /\ last'.fault = "none") =>
           \A s \in Schemas :
               Named(store[s], last'.form.player_name) # {} =>
                   outcome'[s].kind = "duplicate_name" /\ store'[s] = store[s]]_vars

\* C7 witness: a create was answered with the duplicate-name hint in both
\* deployments.
C7_Witness ==
    /\ Submitted /\ ~last.form.update_mode
    /\ \A s \in Schemas : outcome[s].kind = "duplicate_name"
    /\ Len(calls["edit_pin"]) = 1 /\ Len(calls["edit_code"]) = 2

\* C8: a submit_update with the right name and PIN changes only what the
\* caller supplied: a power field left alone and an unchosen seat color keep
\* their stored values, created_at and the secret are kept, and updated_at
\* becomes the time of the update, not earlier than before.
C8_UpdateKeepsUnsupplied ==
    [][(SubmitStep /\ last'.form.update_mode) =>
           \A s \in Schemas :
               outcome'[s].kind = "success" =>
                   \A r \in Named(store[s], last'.form.player_name) :
                       r[s] = last'.form.pin =>
                           \E q \in Named(store'[s], last'.form.player_name) :
                               /\ last'.form.total_power = <<>> =>
                                      q["total_hero_power"] = r["total_hero_power"]
                               /\ last'.form.combat_power = <<>> =>
                                      q["combat_power_1st_squad"] = r["combat_power_1st_squad"]
                               /\ last'.form.seat_color = "" =>
                                      q["expected_transfer_seat_color"] =
                                          r["expected_transfer_seat_color"]
                               /\ q["created_at"] = r["created_at"] /\ q[s] = r[s]
                               /\ q["updated_at"] = clock' /\ q["updated_at"] >= r["updated_at"]]_vars

\* C9: a submission whose player_name or current_alliance is empty after
\* trimming, or whose PIN fails valid_pin, is answered with a validation
\* warning without a store call; no row has an empty name or alliance.
C9_BlankFieldsRejected ==
    \A s \in Schemas :
        /\ (Submitted /\ (strip(last.form.player_name) = <<>>
                            \/ strip(last.form.alliance) = <<>>
                            \/ ~valid_pin(last.form.pin))) =>
               outcome[s].kind \in Warnings /\ calls[s] = <<>>
        /\ \A r \in store[s] : r["player_name"] # <<>> /\ r["current_alliance"] # <<>>

\* ^[0-9]{4,6}$
MatchesPinPattern(s) ==
    /\ 4 <= Len(s) /\ Len(s) <= 6
    /\ \A i \in 1..Len(s) : s[i] \in AsciiDigits

\* C3: valid_pin accepts a string iff it is made of 4 to 6 of the digits 0-9.
C3_ValidPinIsPattern ==
    verdict # "unchecked" => (verdict = "accepted" <=> MatchesPinPattern(candidate))

Done(i) == sess.sub[i].pc = "done" /\ sess.sub[i].calls # <<>>

Told(i) == sess.sub[i].outcome.kind

\* C10: two submitters whose creates of the same, not yet registered
\* player_name interleave end with exactly one row of that name, one of them
\* told it succeeded and the other shown the duplicate-name hint, the
\* uniqueness failure being the last store call of the losing run.
C10_RaceArbitratedByStore ==
    \A i, j \in Submitters :
        (i # j /\ Done(i) /\ Done(j)
           /\ strip(sess.sub[i].form.player_name) = strip(sess.sub[j].form.player_name)
           /\ strip(sess.sub[i].form.player_name) \notin sess.present0) =>
            /\ Cardinality(Named(store[sess.schema], sess.sub[i].form.player_name)) = 1
            /\ {Told(i), Told(j)} = {"success", "duplicate_name"}
            /\ Told(j) = "duplicate_name" =>
                   /\ sess.sub[j].calls[Len(sess.sub[j].calls)].msg = UniqueViolation
                   /\ \A k \in 1..(Len(sess.sub[j].calls) - 1) :
                          sess.sub[j].calls[k].msg # UniqueViolation

\* C10 witness: in the legacy deployment, where every create takes two store
\* calls, two creates of one fresh name with different PINs ended with
\* submitter 2 the winner and submitter 1 the loser.
C10_Witness ==
    /\ sess.schema = "edit_code"
    /\ Done(1) /\ Done(2)
    /\ strip(sess.sub[1].form.player_name) = strip(sess.sub[2].form.player_name)
    /\ strip(sess.sub[1].form.player_name) \notin sess.present0
    /\ Told(1) = "duplicate_name" /\ Told(2) = "success"
    /\ sess.sub[1].form.pin # sess.sub[2].form.pin

\* A dashboard handled a form of the given kind in this step.
AdminStep(kind) == ops' = ops + 1 /\ adm'.op.seq = ops' /\ adm'.op.kind = kind

\* C11: a successful write of a caching session invalidates its cached
\* snapshot at once: no cache entry outlives a write its session made after
\* the snapshot was taken, and no read is served from such an entry.
C11_WriteInvalidatesCache ==
    \A app \in Apps, s \in Schemas :
        /\ ~(adm.cache[app][s].valid /\ adm.cache[app][s].predates)
        /\ ~adm.read[app][s].predates

\* C12: every operation that creates or changes a row (submit_new,
\* submit_update, admin upsert, admin PIN reset) stamps the row's updated_at
\* with the time of the operation.
C12_WritesStampUpdatedAt ==
    [][\A s \in Schemas : \A r \in store'[s] \ store[s] :
           clock <= r["updated_at"] /\ r["updated_at"] <= clock']_vars

\* C13: what a submit_update whose PIN matches no row reports does not tell
\* whether the named player is registered: with the row of that name taken
\* out of the table, the same submission is shown the same outcome and
\* message.
C13_RejectionHidesExistence ==
    [][(SubmitStep /\ last'.form.update_mode) =>
          \A s \in Schemas : \A r \in Named(store[s], last'.form.player_name) :
              r[s] # strip(last'.form.pin) =>
                  outcome'[s] = HandleSubmit(store[s] \ {r}, s, last'.form, clock, clock,
                                             last'.fault).outcome]_vars

\* C13 witness: an update naming a registered player with a PIN that is not
\* the row's reached the store, and was shown what it is shown when the
\* player is not registered.
C13_Witness ==
    /\ Submitted /\ last.form.update_mode /\ ReachesStore(last.form)
    /\ \A s \in Schemas : \E r \in Named(store[s], last.form.player_name) :
           /\ r[s] # strip(last.form.pin)
           /\ outcome[s] = HandleSubmit(store[s] \ {r}, s, last.form, clock, clock,
                                        last.fault).outcome

\* C14: the admin upsert is one store call keyed on player_name, with no PIN
\* asked: an absent name gets one new row, a present name gets the supplied
\* columns overwritten and keeps the others; afterwards exactly one row has
\* the name and every other row is as it was.
C14_UpsertByName ==
    [][(AdminStep("upsert") /\ adm'.op.name # <<>> /\ adm'.op.fault = "none") =>
          \A s \in Schemas :
              LET row == adm'.op.payload
                  before == Named(store[s], adm'.op.name)
                  after == Named(store'[s], adm'.op.name)
              IN  /\ adm'.result[s].shown = "saved"
                  /\ Len(adm'.result[s].calls) = 1
                  /\ adm'.result[s].calls[1].verb = "upsert"
                  /\ Cardinality(after) = 1
                  /\ \A r \in after :
                        /\ \A c \in DOMAIN row : r[c] = row[c]
                        /\ \A c \in Columns(s) \ (DOMAIN row \cup {"updated_at"}) :
                              IF before = {} THEN r[c] = NullOf(c)
                              ELSE \A b \in before : r[c] = b[c]
                  /\ store'[s] \ after = store[s] \ before]_vars

\* C14 witness: an upsert of a name whose row a submitter had created was
\* saved; the row carries the supplied alliance and still has its PIN.
C14_Witness ==
    /\ adm.op.kind = "upsert" /\ adm.op.fault = "none"
    /\ \A s \in Schemas :
          /\ adm.result[s].shown = "saved"
          /\ \E r \in Named(store[s], adm.op.name) :
                /\ r[s] # NullText
                /\ r["current_alliance"] = adm.op.payload["current_alliance"]

\* C15: after submit_new, submit_update and admin PIN reset operations every
\* stored secret is 4 to 6 of the digits 0-9, and a PIN reset whose two PINs
\* differ or are not such a string makes no store call.
C15_SecretsAreAsciiDigits ==
    /\ \A s \in Schemas : \A r \in store[s] : MatchesPinPattern(r[s])
    /\ (adm.op.kind = "reset" /\ ~(adm.op.pin1 = adm.op.pin2 /\ MatchesPinPattern(adm.op.pin1))) =>
           \A s \in Schemas : adm.result[s].calls = <<>>

====
